---- MODULE Spec2Model ----
(***************************************************************************)
(* Model of the source-branch resolution of `git lab mr create`            *)
(* (src/cmds/mr/create.rs, create_merge_request_cmd), of the steps of the  *)
(* command around it, and of the configuration it runs with                *)
(* (src/config.rs, src/cmds/init.rs, src/utils.rs).                        *)
(*                                                                         *)
(* Strings are sequences of one-character strings, so that starts_with,    *)
(* u64::to_string and slugify are computed, not assumed.  An Option<T> is  *)
(* a sequence of length 0 (None) or 1 (Some).                              *)
(***************************************************************************)
EXTENDS Integers, Sequences, FiniteSets, TLC

\* ------------------------------------------------------------------------
\* Bounds of the model
\* ------------------------------------------------------------------------
NumBranches == 4

NumTitles == 2

NumIssues == 2

NumTargets == 2

MaxNameLen == 4

MaxId == 42

MaxEntries == 2

MaxPrior == 1

\* ------------------------------------------------------------------------
\* Input domains
\* ------------------------------------------------------------------------
None == <<>>

Some(x) == <<x>>

BranchList ==
    << <<"m">>,
       <<"f">>,
       <<"4", "-", "f">>,
       <<"4", "2", "-", "f">>,
       <<"4", "2", "f">>,
       <<"F">> >>

TitleList ==
    << <<"F", " ", "x">>,
       <<"M">>,
       <<" ", "4", "!", "!", "f", " ">>,
       <<"!">> >>

IssueList == <<4, 42, 421, 7>>

Prefix(list, n) == {list[k] : k \in 1..(IF n < Len(list) THEN n ELSE Len(list))}

Branches == Prefix(BranchList, NumBranches)

Titles == Prefix(TitleList, NumTitles)

Issues == Prefix(IssueList, NumIssues)

\* the branches --target is drawn from
Targets == Prefix(BranchList, NumTargets)

\* config.defaultbranch
defaultbranch == <<"m">>

\* ------------------------------------------------------------------------
\* Pure helpers
\* ------------------------------------------------------------------------
Digits == <<"0", "1", "2", "3", "4", "5", "6", "7", "8", "9">>

RECURSIVE to_string(_)
\* u64::to_string: the decimal text of id
to_string(id) ==
    IF id < 10 THEN <<Digits[id + 1]>>
    ELSE Append(to_string(id \div 10), Digits[(id % 10) + 1])

\* str::starts_with
starts_with(s, p) == Len(p) <= Len(s) /\ SubSeq(s, 1, Len(p)) = p

branch_prefixed_with_issue_id_NoDash(branch, id) == starts_with(branch, to_string(id))

branch_prefixed_with_issue_id_LeadingZero(branch, id) ==
    \/ starts_with(branch, to_string(id) \o <<"-">>)
    \/ starts_with(branch, <<"0">> \o to_string(id) \o <<"-">>)

branch_prefixed_with_issue_id(branch, id) == starts_with(branch, to_string(id) \o <<"-">>)

\* to_lowercase on the characters the titles use
to_lowercase(c) ==
    CASE c = "F" -> "f"
      [] c = "M" -> "m"
      [] c = "X" -> "x"
      [] OTHER -> c

IsSlugChar(c) == c \in {"f", "m", "x"} \/ c \in {Digits[k] : k \in 1..10}

RECURSIVE SlugLoop(_, _, _)
\* the loop of slugify: [a-z0-9] kept, every run of other characters becomes
\* one separator, no leading separator
SlugLoop(s, acc, is_sep) ==
    IF s = <<>> THEN acc
    ELSE LET x == to_lowercase(Head(s)) IN
         IF IsSlugChar(x) THEN SlugLoop(Tail(s), Append(acc, x), FALSE)
         ELSE IF ~is_sep THEN SlugLoop(Tail(s), Append(acc, "-"), TRUE)
         ELSE SlugLoop(Tail(s), acc, TRUE)

\* slugify!(s): the loop, then a trailing separator is dropped
slug(s) ==
    LET r == SlugLoop(s, <<>>, TRUE) IN
    IF r # <<>> /\ r[Len(r)] = "-" THEN SubSeq(r, 1, Len(r) - 1) ELSE r

\* format!("{}-{}", id, slug(&s))
slug_and_prefix(id, s) == to_string(id) \o <<"-">> \o slug(s)

\* ------------------------------------------------------------------------
\* State
\* ------------------------------------------------------------------------
VARIABLES
    source_branch_arg,  \* args.value_of("source_branch")
    local_branch_name,  \* get_current_branch().0
    remote_branch_name, \* get_current_branch().1
    issue_arg,          \* value_t!(args, "issue_id", u64).ok()
    title,              \* the resolved merge request title
    exists,             \* server: the branches that exist in the project
    openmr,             \* server: the branches an opened/locked MR is sourced from
    pc,                 \* "resolve" while the match is evaluated, then "done"
    arm,                \* the match arm under evaluation
    probes,             \* the probe calls issued so far, in order
    creates,            \* the create_remote_branch calls issued so far, in order
    outcome,            \* the value (or panic) the match expression ended in
    failing,            \* the kinds of server query that fail (network or API error)
    target_arg,         \* args.value_of("target_branch")
    target_branch,      \* the validated target branch, "" before validation
    mr_calls,           \* the create-merge-request calls issued so far, in order
    result,             \* what the command returned: "none" while it runs
    prefix_check,       \* one application of branch_prefixed_with_issue_id
    other,              \* a second mr create command running against the same project
    issue_state,        \* server: the state of the issue --issue_id names
    repo,               \* the local repository's HEAD and one get_current_branch call
    conf                \* the git config files, the environment and the Config built from them

vars == <<source_branch_arg, local_branch_name, remote_branch_name, issue_arg, title,
          exists, openmr, pc, arm, probes, creates, outcome,
          failing, target_arg, target_branch, mr_calls, result, prefix_check,
          other, issue_state, repo, conf>>

\* what only the specifications of a second command, of the issue lookup, of
\* get_current_branch and of the configuration use
side == <<other, issue_state, repo, conf>>

\* what the source-branch match neither reads nor writes
rest == <<target_arg, target_branch, mr_calls, result, prefix_check, side>>

ctx == <<source_branch_arg, local_branch_name, remote_branch_name, issue_arg, title>>

Opt(S) == {None} \cup {Some(x) : x \in S}

\* the value inside an Option; <<>> / 0 stand in where a pattern did not bind
Str(o) == IF o = None THEN <<>> ELSE o[1]

Num(o) == IF o = None THEN 0 ELSE o[1]

\* get_current_branch: the tracking branch is looked up only when the local
\* branch is known
get_current_branch ==
    {<<l, r>> \in Opt(Branches) \X Opt(Branches) : l = None => r = None}

\* the names one run of the command can ask the server about
Candidates(s, l, r, i, t) ==
    IF s # None THEN {Str(s), Str(l), Str(r)} \ {<<>>}
    ELSE ({Str(l), Str(r), slug(t)} \ {<<>>})
         \cup (IF i = None THEN {} ELSE {slug_and_prefix(Num(i), t)})

\* no application of branch_prefixed_with_issue_id under way
NoCheck == [branch |-> <<>>, id |-> 0, state |-> "idle", value |-> FALSE]

NoOutcome == [kind |-> "none", name |-> <<>>, reason |-> "", ok |-> FALSE]

\* no second command
NoOther == [pc |-> "absent", name |-> <<>>, kind |-> "none"]

\* no get_current_branch call under way
NoRepo == [state |-> "idle"]

\* no configuration being read or written
NoConf == [state |-> "idle"]

\* the issue lookup is over: a given issue was found and is not closed
IssuePassed == IF issue_arg = None THEN "none" ELSE "opened"

\* the state when the source-branch match starts, target validation passed
\* with no --target; f is the set of query kinds that fail
InitResolve(f) ==
    /\ source_branch_arg \in Opt(Branches)
    /\ \E lr \in get_current_branch :
          /\ local_branch_name = lr[1]
          /\ remote_branch_name = lr[2]
    /\ issue_arg \in Opt(Issues)
    /\ title \in Titles
    /\ exists \in SUBSET Candidates(source_branch_arg, local_branch_name,
                                    remote_branch_name, issue_arg, title)
    /\ openmr \in SUBSET Candidates(source_branch_arg, local_branch_name,
                                    remote_branch_name, issue_arg, title)
    /\ pc = "resolve"
    /\ arm = 1
    /\ probes = <<>>
    /\ creates = <<>>
    /\ outcome = NoOutcome
    /\ failing = f
    /\ target_arg = None
    /\ target_branch = defaultbranch
    /\ mr_calls = <<>>
    /\ result = "none"
    /\ prefix_check = NoCheck
    /\ other = NoOther
    /\ issue_state = IssuePassed
    /\ repo = NoRepo
    /\ conf = NoConf

Init == InitResolve({})

\* the state when the target branch is about to be validated: --target may be
\* given, and the server may or may not have that branch
InitCmd ==
    /\ source_branch_arg \in Opt(Branches)
    /\ \E lr \in get_current_branch :
          /\ local_branch_name = lr[1]
          /\ remote_branch_name = lr[2]
    /\ issue_arg \in Opt(Issues)
    /\ title \in Titles
    /\ target_arg \in Opt(Targets)
    /\ exists \in SUBSET (Candidates(source_branch_arg, local_branch_name,
                                     remote_branch_name, issue_arg, title)
                          \cup ({Str(target_arg)} \ {<<>>}))
    /\ openmr \in SUBSET Candidates(source_branch_arg, local_branch_name,
                                    remote_branch_name, issue_arg, title)
    /\ pc = "target"
    /\ arm = 1
    /\ probes = <<>>
    /\ creates = <<>>
    /\ outcome = NoOutcome
    /\ failing = {}
    /\ target_branch = <<>>
    /\ mr_calls = <<>>
    /\ result = "none"
    /\ prefix_check = NoCheck
    /\ other = NoOther
    /\ issue_state = IssuePassed
    /\ repo = NoRepo
    /\ conf = NoConf

\* as Init, with the queries of at least one kind failing
InitFail == \E f \in (SUBSET {"exists", "openmr"}) \ {{}} : InitResolve(f)

\* ------------------------------------------------------------------------
\* Probes and guards
\* ------------------------------------------------------------------------
\* remote_branch_exists(p, branch, client): `.query(client).ok()` followed by
\* is_some(): the server's answer, and false when the query failed
remote_branch_exists(branch) == "exists" \notin failing /\ branch \in exists

\* open_mr_on_branch(p, branch, client): any opened or locked MR from branch
open_mr_on_branch(branch) == branch \in openmr

\* the conjuncts of a match guard
E(n) ==
    [t |-> "exists", n |-> n, neg |-> FALSE, v |-> remote_branch_exists(n),
     err |-> "exists" \in failing]

NotE(n) ==
    [t |-> "exists", n |-> n, neg |-> TRUE, v |-> remote_branch_exists(n),
     err |-> "exists" \in failing]

O(n) ==
    [t |-> "openmr", n |-> n, neg |-> FALSE, v |-> open_mr_on_branch(n),
     err |-> "openmr" \in failing]

NotO(n) ==
    [t |-> "openmr", n |-> n, neg |-> TRUE, v |-> open_mr_on_branch(n),
     err |-> "openmr" \in failing]

P(b) == [t |-> "pure", n |-> <<>>, neg |-> FALSE, v |-> b, err |-> FALSE]

\* the record of one probe call: what was asked, what the caller got back, and
\* whether the query behind it failed
ProbeOf(c) == [t |-> c.t, n |-> c.n, ans |-> c.v, err |-> c.err]

RECURSIVE EvalGuard(_, _)
\* `a && b && ...` evaluated left to right, stopping at the first false
\* conjunct; log collects the probe calls this made.  A failed
\* open_mr_on_branch query panics in its unwrap() chain.
EvalGuard(g, log) ==
    IF g = <<>> THEN [val |-> TRUE, panic |-> FALSE, log |-> log]
    ELSE LET c == Head(g)
             log2 == IF c.t = "pure" THEN log ELSE Append(log, ProbeOf(c))
         IN IF c.t = "openmr" /\ c.err
            THEN [val |-> FALSE, panic |-> TRUE, log |-> log2]
            ELSE IF c.v = c.neg THEN [val |-> FALSE, panic |-> FALSE, log |-> log2]
            ELSE EvalGuard(Tail(g), log2)

\* ------------------------------------------------------------------------
\* What a match arm evaluates to
\* ------------------------------------------------------------------------
\* Ok(name): an existing branch is used as the source
Ok(name) ==
    /\ outcome' = [kind |-> "UseExisting", name |-> name, reason |-> "", ok |-> TRUE]
    /\ pc' = "done"
    /\ UNCHANGED <<exists, creates, arm>>

\* Err(anyhow!(...)): the command fails with a message about branch `name`
Err(reason, name) ==
    /\ outcome' = [kind |-> "Reject", name |-> name, reason |-> reason, ok |-> FALSE]
    /\ pc' = "done"
    /\ UNCHANGED <<exists, creates, arm>>

\* a create_remote_branch that repeats the request once when it failed
create_remote_branch_Retry(from, branch) ==
    \E ok \in (IF branch \in exists THEN {FALSE} ELSE BOOLEAN) :
        /\ creates' = IF ok THEN Append(creates, [from |-> from, branch |-> branch])
                      ELSE creates \o << [from |-> from, branch |-> branch],
                                         [from |-> from, branch |-> branch] >>
        /\ exists' = IF ok THEN exists \cup {branch} ELSE exists
        /\ outcome' = [kind |-> "Create", name |-> branch, reason |-> "", ok |-> ok]
        /\ pc' = "done"
        /\ UNCHANGED arm

\* create_remote_branch(p, from, branch, client): one POST to the server, which
\* refuses a name that exists and may fail otherwise; Ok(branch.name) or the
\* error goes back through the `?` after the match
create_remote_branch(from, branch) ==
    \E ok \in (IF branch \in exists THEN {FALSE} ELSE BOOLEAN) :
        /\ creates' = Append(creates, [from |-> from, branch |-> branch])
        /\ exists' = IF ok THEN exists \cup {branch} ELSE exists
        /\ outcome' = [kind |-> "Create", name |-> branch, reason |-> "", ok |-> ok]
        /\ pc' = "done"
        /\ UNCHANGED arm

\* unreachable!(): the command panics
Unreachable ==
    /\ outcome' = [kind |-> "Panic", name |-> <<>>, reason |-> "unreachable", ok |-> FALSE]
    /\ pc' = "done"
    /\ UNCHANGED <<exists, creates, arm>>

\* Option::unwrap()/Result::unwrap() on the failed GraphQL query: the command
\* panics
UnwrapPanic ==
    /\ outcome' = [kind |-> "Panic", name |-> <<>>, reason |-> "unwrap", ok |-> FALSE]
    /\ pc' = "done"
    /\ UNCHANGED <<exists, creates, arm>>

\* One arm of the match: the pattern is tested first, the guard only when the
\* pattern matched; the body runs when both hold, else the next arm is tried.
Arm(k, pat, guard, body) ==
    /\ pc = "resolve"
    /\ arm = k
    /\ LET g == IF pat THEN EvalGuard(guard, <<>>)
                ELSE [val |-> FALSE, panic |-> FALSE, log |-> <<>>]
       IN /\ probes' = probes \o g.log
          /\ IF g.panic
             THEN UnwrapPanic
             ELSE IF g.val
             THEN body
             ELSE /\ arm' = k + 1
                  /\ UNCHANGED <<pc, outcome, exists, creates>>
    /\ UNCHANGED <<ctx, openmr, failing, rest>>

\* the values the patterns bind
s == Str(source_branch_arg)

local == Str(local_branch_name)

remote == Str(remote_branch_name)

i_id == Num(issue_arg)

\* (Some(s), _, _, None)
PatSourceNoIssue == source_branch_arg # None /\ issue_arg = None

\* (Some(s), _, _, Some(i_id))
PatSourceIssue == source_branch_arg # None /\ issue_arg # None

\* (Some(s), _, _, _)
PatSource == source_branch_arg # None

\* (None, Some(_), Some(remote), Some(i_id))
PatRemoteIssue ==
    /\ source_branch_arg = None /\ local_branch_name # None
    /\ remote_branch_name # None /\ issue_arg # None

\* (None, Some(_), Some(remote), None)
PatRemoteNoIssue ==
    /\ source_branch_arg = None /\ local_branch_name # None
    /\ remote_branch_name # None /\ issue_arg = None

\* (None, Some(local), None, Some(i_id))
PatLocalOnlyIssue ==
    /\ source_branch_arg = None /\ local_branch_name # None
    /\ remote_branch_name = None /\ issue_arg # None

\* (None, Some(local), _, Some(i_id))
PatLocalIssue ==
    source_branch_arg = None /\ local_branch_name # None /\ issue_arg # None

\* (None, Some(local), None, None)
PatLocalOnlyNoIssue ==
    /\ source_branch_arg = None /\ local_branch_name # None
    /\ remote_branch_name = None /\ issue_arg = None

\* (None, Some(local), _, None)
PatLocalNoIssue ==
    source_branch_arg = None /\ local_branch_name # None /\ issue_arg = None

\* ------------------------------------------------------------------------
\* The arms of `let source_branch: String = match (...)`, in source order
\* ------------------------------------------------------------------------
Guard01_NoOpenCheck == <<E(s)>>

Guard01 == <<E(s), NotO(s)>>

Arm01 == Arm(1, PatSourceNoIssue, Guard01, Ok(s))

Guard02_ProbeFirst == <<E(s), P(~branch_prefixed_with_issue_id(s, i_id))>>

Guard02 == <<P(~branch_prefixed_with_issue_id(s, i_id))>>

Arm02 == Arm(2, PatSourceIssue, Guard02, Err("NamingConventionViolation", s))

Guard03 == <<E(s), NotO(s), P(branch_prefixed_with_issue_id(s, i_id))>>

Arm03 == Arm(3, PatSourceIssue, Guard03, Ok(s))

Guard04 == <<E(s), O(s)>>

Arm04 == Arm(4, PatSource, Guard04, Err("BranchAlreadyInUse", s))

Arm05_FromTarget == Arm(5, PatSource, <<>>, create_remote_branch(target_branch, s))

Arm05 == Arm(5, PatSource, <<>>, create_remote_branch(defaultbranch, s))

Guard06_WithOpenCheck ==
    <<E(remote), NotO(remote), P(branch_prefixed_with_issue_id(remote, i_id))>>

Guard06 == <<E(remote), P(branch_prefixed_with_issue_id(remote, i_id))>>

Arm06 == Arm(6, PatRemoteIssue, Guard06, Ok(remote))

Guard07 ==
    <<E(remote), P(~branch_prefixed_with_issue_id(remote, i_id)),
      P(remote # defaultbranch)>>

Arm07 == Arm(7, PatRemoteIssue, Guard07, Ok(remote))

Guard08_NoOpenCheck == <<E(remote)>>

Guard08 == <<E(remote), O(remote)>>

Arm08 == Arm(8, PatRemoteNoIssue, Guard08, Err("BranchAlreadyInUse", remote))

Guard09 == <<E(remote), P(remote # defaultbranch)>>

Arm09 == Arm(9, PatRemoteNoIssue, Guard09, Ok(remote))

Guard10 == <<E(remote), P(remote = defaultbranch)>>

Arm10 ==
    Arm(10, PatRemoteNoIssue, Guard10, create_remote_branch(defaultbranch, slug(title)))

Guard11 == <<NotE(remote)>>

Arm11 == Arm(11, PatRemoteIssue, Guard11, create_remote_branch(defaultbranch, remote))

Guard12 == <<NotE(remote)>>

Arm12 == Arm(12, PatRemoteNoIssue, Guard12, create_remote_branch(defaultbranch, remote))

Guard13_ProbeFirst == <<P(branch_prefixed_with_issue_id(local, i_id)), NotE(local)>>

Guard13 == <<P(branch_prefixed_with_issue_id(local, i_id))>>

Arm13 == Arm(13, PatLocalOnlyIssue, Guard13, create_remote_branch(defaultbranch, local))

Guard14 == <<P(local # defaultbranch)>>

Arm14 == Arm(14, PatLocalOnlyIssue, Guard14, Err("NamingConventionViolation", local))

Guard15_NoProbe == <<P(local = defaultbranch)>>

Guard15 == <<P(local = defaultbranch), E(slug_and_prefix(i_id, title))>>

Arm15 ==
    Arm(15, PatLocalIssue, Guard15,
        Err("BranchAlreadyExists", slug_and_prefix(i_id, title)))

Guard16_WithOpenCheck ==
    <<P(local = defaultbranch), NotE(slug_and_prefix(i_id, title)),
      NotO(slug_and_prefix(i_id, title))>>

Guard16 == <<P(local = defaultbranch), NotE(slug_and_prefix(i_id, title))>>

Arm16 ==
    Arm(16, PatLocalIssue, Guard16,
        create_remote_branch(defaultbranch, slug_and_prefix(i_id, title)))

Guard17 == <<P(local # defaultbranch), NotE(local)>>

Arm17 == Arm(17, PatLocalOnlyNoIssue, Guard17, create_remote_branch(defaultbranch, local))

Guard18 == <<P(local = defaultbranch), NotE(slug(title))>>

Arm18 ==
    Arm(18, PatLocalNoIssue, Guard18, create_remote_branch(defaultbranch, slug(title)))

\* (s, l, r, i) => unreachable!()
Arm19 == Arm(19, TRUE, <<>>, Unreachable)

Next ==
    \/ Arm01 \/ Arm02 \/ Arm03 \/ Arm04 \/ Arm05 \/ Arm06 \/ Arm07
    \/ Arm08 \/ Arm09 \/ Arm10 \/ Arm11 \/ Arm12 \/ Arm13 \/ Arm14
    \/ Arm15 \/ Arm16 \/ Arm17 \/ Arm18 \/ Arm19

Spec == Init /\ [][Next]_vars

\* ------------------------------------------------------------------------
\* The steps of the command around the match
\* ------------------------------------------------------------------------
\* a target match that lets a missing target through
ValidateTarget_NoCheck ==
    /\ pc = "target"
    /\ IF target_arg = None
       THEN /\ target_branch' = defaultbranch
            /\ UNCHANGED probes
       ELSE /\ probes' = Append(probes, ProbeOf(E(Str(target_arg))))
            /\ target_branch' = Str(target_arg)
    /\ pc' = "resolve"
    /\ UNCHANGED <<ctx, exists, openmr, arm, creates, outcome, failing,
                   target_arg, mr_calls, result, prefix_check, side>>

\* let target_branch = match (args.value_of("target_branch"), defaultbranch):
\* a given target is checked with remote_branch_exists and the command fails
\* when it is missing; without --target the default branch is taken unchecked
ValidateTarget ==
    /\ pc = "target"
    /\ IF target_arg = None
       THEN /\ target_branch' = defaultbranch
            /\ pc' = "resolve"
            /\ UNCHANGED <<probes, result>>
       ELSE LET c == E(Str(target_arg)) IN
            /\ probes' = Append(probes, ProbeOf(c))
            /\ IF c.v
               THEN /\ target_branch' = Str(target_arg)
                    /\ pc' = "resolve"
                    /\ UNCHANGED result
               ELSE /\ result' = "TargetBranchMissing"
                    /\ pc' = "exit"
                    /\ UNCHANGED target_branch
    /\ UNCHANGED <<ctx, exists, openmr, arm, creates, outcome, failing,
                   target_arg, mr_calls, prefix_check, side>>

\* `}?;` after the match: an Err arm or a failed creation is returned to the
\* caller; a panic ends the process
PropagateError ==
    /\ pc = "done"
    /\ ~outcome.ok
    /\ result' = IF outcome.kind = "Panic" THEN "panic" ELSE "SourceBranchError"
    /\ pc' = "exit"
    /\ UNCHANGED <<ctx, exists, openmr, arm, probes, creates, outcome, failing,
                   target_arg, target_branch, mr_calls, prefix_check, side>>

\* a command that goes on to the request after a failed match
CreateMergeRequest_NoCheck ==
    /\ pc = "done"
    /\ outcome.kind # "Panic"
    /\ mr_calls' = Append(mr_calls, [source_branch |-> outcome.name,
                                      target_branch |-> target_branch])
    /\ \E ok \in BOOLEAN :
          /\ result' = IF ok THEN "Ok" ELSE "MergeRequestFailed"
          /\ openmr' = IF ok THEN openmr \cup {outcome.name} ELSE openmr
    /\ pc' = "exit"
    /\ UNCHANGED <<ctx, exists, arm, probes, creates, outcome, failing,
                   target_arg, target_branch, prefix_check, side>>

\* a command that deletes the branch it created when the request fails
CreateMergeRequest_Rollback ==
    /\ pc = "done"
    /\ outcome.ok
    /\ mr_calls' = Append(mr_calls, [source_branch |-> outcome.name,
                                      target_branch |-> target_branch])
    /\ \E ok \in BOOLEAN :
          /\ result' = IF ok THEN "Ok" ELSE "MergeRequestFailed"
          /\ openmr' = IF ok THEN openmr \cup {outcome.name} ELSE openmr
          /\ exists' = IF ~ok /\ outcome.kind = "Create"
                        THEN exists \ {outcome.name} ELSE exists
    /\ pc' = "exit"
    /\ UNCHANGED <<ctx, arm, probes, creates, outcome, failing,
                   target_arg, target_branch, prefix_check, side>>

\* CreateMergeRequest::builder() ... .query(&gitlabclient): one request with
\* the matched source branch and the validated target; the server opens the
\* request or the call fails
CreateMergeRequest ==
    /\ pc = "done"
    /\ outcome.ok
    /\ mr_calls' = Append(mr_calls, [source_branch |-> outcome.name,
                                      target_branch |-> target_branch])
    /\ \E ok \in BOOLEAN :
          /\ result' = IF ok THEN "Ok" ELSE "MergeRequestFailed"
          /\ openmr' = IF ok THEN openmr \cup {outcome.name} ELSE openmr
    /\ pc' = "exit"
    /\ UNCHANGED <<ctx, exists, arm, probes, creates, outcome, failing,
                   target_arg, target_branch, prefix_check, side>>

NextCmd == ValidateTarget \/ Next \/ PropagateError \/ CreateMergeRequest

\* the command from target validation to its return
SpecCmd == InitCmd /\ [][NextCmd]_vars

\* the source-branch match while server queries fail
SpecFail == InitFail /\ [][Next]_vars

\* The project on the server is shared with other clients: between two arms
\* of the match a branch may be created or deleted and a request opened,
\* merged or closed, so a guard that asks again may get another answer.
RemoteChange ==
    /\ pc = "resolve"
    /\ \E n \in Candidates(source_branch_arg, local_branch_name,
                            remote_branch_name, issue_arg, title) :
          \/ /\ exists' = IF n \in exists THEN exists \ {n} ELSE exists \cup {n}
             /\ UNCHANGED openmr
          \/ /\ openmr' = IF n \in openmr THEN openmr \ {n} ELSE openmr \cup {n}
             /\ UNCHANGED exists
    /\ UNCHANGED <<ctx, pc, arm, probes, creates, outcome, failing,
                   target_arg, target_branch, mr_calls, result, prefix_check, side>>

NextRace == Next \/ RemoteChange

\* the source-branch match while the server's state changes under it
SpecRace == Init /\ [][NextRace]_vars

\* ------------------------------------------------------------------------
\* A second command against the same project
\* ------------------------------------------------------------------------
\* the state when the match starts while a second `mr create --source n`,
\* without an issue id, is about to start its own match
InitPar ==
    /\ source_branch_arg \in Opt(Branches)
    /\ \E lr \in get_current_branch :
          /\ local_branch_name = lr[1]
          /\ remote_branch_name = lr[2]
    /\ issue_arg \in Opt(Issues)
    /\ title \in Titles
    /\ exists \in SUBSET Candidates(source_branch_arg, local_branch_name,
                                    remote_branch_name, issue_arg, title)
    /\ openmr \in SUBSET Candidates(source_branch_arg, local_branch_name,
                                    remote_branch_name, issue_arg, title)
    /\ \E n \in Candidates(source_branch_arg, local_branch_name,
                            remote_branch_name, issue_arg, title) :
          other = [pc |-> "start", name |-> n, kind |-> "none"]
    /\ pc = "resolve"
    /\ arm = 1
    /\ probes = <<>>
    /\ creates = <<>>
    /\ outcome = NoOutcome
    /\ failing = {}
    /\ target_arg = None
    /\ target_branch = defaultbranch
    /\ mr_calls = <<>>
    /\ result = "none"
    /\ prefix_check = NoCheck
    /\ issue_state = IssuePassed
    /\ repo = NoRepo
    /\ conf = NoConf

\* the second command's match, (Some(s), _, _, None) with s = other.name, its
\* arms run without interruption: s is used when it exists without an open
\* request, refused when it has one, and created from the default branch
\* when it does not exist
OtherResolve ==
    /\ other.pc = "start"
    /\ IF other.name \in exists
       THEN /\ other' = IF other.name \in openmr
                         THEN [other EXCEPT !.pc = "failed", !.kind = "Reject"]
                         ELSE [other EXCEPT !.pc = "resolved", !.kind = "UseExisting"]
            /\ UNCHANGED exists
       ELSE \E ok \in BOOLEAN :
               /\ exists' = IF ok THEN exists \cup {other.name} ELSE exists
               /\ other' = [other EXCEPT !.pc = IF ok THEN "resolved" ELSE "failed",
                                          !.kind = "Create"]
    /\ UNCHANGED <<ctx, openmr, pc, arm, probes, creates, outcome, failing,
                   target_arg, target_branch, mr_calls, result, prefix_check,
                   issue_state, repo, conf>>

\* the second command's create-merge-request call from the branch its match
\* yielded; the server opens the request or the call fails
OtherSubmit ==
    /\ other.pc = "resolved"
    /\ \E ok \in BOOLEAN :
          /\ openmr' = IF ok THEN openmr \cup {other.name} ELSE openmr
          /\ other' = [other EXCEPT !.pc = IF ok THEN "submitted" ELSE "failed"]
    /\ UNCHANGED <<ctx, exists, pc, arm, probes, creates, outcome, failing,
                   target_arg, target_branch, mr_calls, result, prefix_check,
                   issue_state, repo, conf>>

NextPar == Next \/ PropagateError \/ CreateMergeRequest \/ OtherResolve \/ OtherSubmit

\* two mr create commands interleaved
SpecPar == InitPar /\ [][NextPar]_vars

\* ------------------------------------------------------------------------
\* The issue lookup before the target is validated
\* ------------------------------------------------------------------------
\* the state when the issue is about to be looked up: with --issue_id the
\* server may have the issue opened, have it closed, or fail to return it
InitIssue ==
    /\ source_branch_arg \in Opt(Branches)
    /\ \E lr \in get_current_branch :
          /\ local_branch_name = lr[1]
          /\ remote_branch_name = lr[2]
    /\ issue_arg \in Opt(Issues)
    /\ issue_state \in (IF issue_arg = None THEN {"none"}
                         ELSE {"opened", "closed", "missing"})
    /\ title = TitleList[1]
    /\ target_arg \in Opt(Targets)
    /\ exists \in SUBSET (Candidates(source_branch_arg, local_branch_name,
                                     remote_branch_name, issue_arg, title)
                          \cup ({Str(target_arg)} \ {<<>>}))
    /\ openmr \in SUBSET Candidates(source_branch_arg, local_branch_name,
                                    remote_branch_name, issue_arg, title)
    /\ pc = "issue"
    /\ arm = 1
    /\ probes = <<>>
    /\ creates = <<>>
    /\ outcome = NoOutcome
    /\ failing = {}
    /\ target_branch = <<>>
    /\ mr_calls = <<>>
    /\ result = "none"
    /\ prefix_check = NoCheck
    /\ other = NoOther
    /\ repo = NoRepo
    /\ conf = NoConf

\* an issue lookup that lets a closed issue through
CheckIssue_NoClosedCheck ==
    /\ pc = "issue"
    /\ IF issue_arg # None /\ issue_state = "missing"
       THEN result' = "IssueLookupFailed" /\ pc' = "exit"
       ELSE pc' = "target" /\ UNCHANGED result
    /\ UNCHANGED <<ctx, exists, openmr, arm, probes, creates, outcome, failing,
                   target_arg, target_branch, mr_calls, prefix_check, side>>

\* `let issue = if issue_arg.is_some() { ... .context("Failed to find issue")? }`
\* and `if i.state == "closed" { return Err(...) }`: with --issue_id the issue
\* is fetched; a failed lookup and a closed issue each end the command here
CheckIssue ==
    /\ pc = "issue"
    /\ IF issue_arg # None /\ issue_state = "missing"
       THEN result' = "IssueLookupFailed" /\ pc' = "exit"
       ELSE IF issue_arg # None /\ issue_state = "closed"
       THEN result' = "IssueClosed" /\ pc' = "exit"
       ELSE pc' = "target" /\ UNCHANGED result
    /\ UNCHANGED <<ctx, exists, openmr, arm, probes, creates, outcome, failing,
                   target_arg, target_branch, mr_calls, prefix_check, side>>

NextIssue == CheckIssue \/ NextCmd

\* the command from the issue lookup to its return
SpecIssue == InitIssue /\ [][NextIssue]_vars

\* ------------------------------------------------------------------------
\* get_current_branch on the local repository
\* ------------------------------------------------------------------------
\* "origin/"
Origin == <<"o", "r", "i", "g", "i", "n", "/">>

\* the remote part of an upstream name; none for a branch that tracks a
\* local branch
RemotePrefixes ==
    { <<>>,
      Origin,
      Origin \o Origin,
      <<"u", "p", "/">>,
      <<"u", "p", "/">> \o Origin,
      <<"x">> \o Origin }

\* the names `upstream.name()` can return
Upstreams == {p \o b : p \in RemotePrefixes, b \in Branches}

RECURSIVE replacen(_, _, _)
\* str::replacen(pat, "", count): the first count occurrences of pat, found
\* left to right, are removed
replacen(str, pat, count) ==
    IF count = 0 \/ Len(str) < Len(pat) THEN str
    ELSE IF starts_with(str, pat)
    THEN replacen(SubSeq(str, Len(pat) + 1, Len(str)), pat, count - 1)
    ELSE <<Head(str)>> \o replacen(Tail(str), pat, count)

\* the repository before the call: HEAD is a branch (with or without an
\* upstream), is detached, or cannot be read
InitBranch ==
    /\ repo \in {[state |-> "input", head |-> "branch", name |-> b, upstream |-> u,
                   local |-> None, remote |-> None] :
                      b \in Branches, u \in Opt(Upstreams)}
               \cup {[state |-> "input", head |-> h, name |-> <<>>, upstream |-> None,
                       local |-> None, remote |-> None] :
                      h \in {"detached", "unreadable"}}
    /\ pc = "branch"
    /\ source_branch_arg = None
    /\ local_branch_name = None
    /\ remote_branch_name = None
    /\ issue_arg = None
    /\ title = <<>>
    /\ exists = {}
    /\ openmr = {}
    /\ arm = 1
    /\ probes = <<>>
    /\ creates = <<>>
    /\ outcome = NoOutcome
    /\ failing = {}
    /\ target_arg = None
    /\ target_branch = <<>>
    /\ mr_calls = <<>>
    /\ result = "none"
    /\ prefix_check = NoCheck
    /\ other = NoOther
    /\ issue_state = "none"
    /\ conf = NoConf

\* get_current_local_branch_name(repo_path).ok(): the name of the branch
\* HEAD points to
get_current_local_branch_name(r) ==
    IF r.head = "branch" THEN Some(r.name) ELSE None

\* a lookup that removes every "origin/" the upstream name holds
get_current_remote_branch_name_ReplaceAll(r) ==
    IF r.head = "branch" /\ r.upstream # None
    THEN LET name == r.upstream[1] IN
         Some(IF starts_with(name, Origin) THEN replacen(name, Origin, Len(name))
              ELSE name)
    ELSE None

\* get_current_remote_branch_name(repo_path).ok(): the upstream of the branch
\* HEAD points to, `name.replacen("origin/", "", 1)` when the name starts
\* with "origin/" and the name as it is otherwise
get_current_remote_branch_name(r) ==
    IF r.head = "branch" /\ r.upstream # None
    THEN LET name == r.upstream[1] IN
         Some(IF starts_with(name, Origin) THEN replacen(name, Origin, 1)
              ELSE name)
    ELSE None

\* one call get_current_branch(repo_path): the tracking branch is looked up
\* only when the local branch was found
ApplyGetCurrentBranch ==
    /\ pc = "branch"
    /\ repo.state = "input"
    /\ LET l == get_current_local_branch_name(repo)
           r == IF l # None THEN get_current_remote_branch_name(repo) ELSE None
       IN repo' = [repo EXCEPT !.state = "done", !.local = l, !.remote = r]
    /\ UNCHANGED <<ctx, exists, openmr, pc, arm, probes, creates, outcome, failing,
                   target_arg, target_branch, mr_calls, result, prefix_check,
                   other, issue_state, conf>>

NextBranch == ApplyGetCurrentBranch

SpecBranch == InitBranch /\ [][NextBranch]_vars

\* ------------------------------------------------------------------------
\* Configuration: Config::defaults
\* ------------------------------------------------------------------------
\* the gitlab.* keys; key k also stands for the variable GITLABCLI_<K>
Keys == <<"token", "host", "tls", "format", "projectid">>

\* the places a value can come from, lowest priority first
Sources == <<"System", "XDG", "Global", "Local", "Env">>

\* the texts a key is given in a config file or in the environment
RawValues ==
    << <<"token", <<"a">>>>,
       <<"token", <<"b">>>>,
       <<"host", <<"a">>>>,
       <<"host", <<"b">>>>,
       <<"tls", <<"t", "r", "u", "e">>>>,
       <<"tls", <<"0">>>>,
       <<"format", <<"j", "s", "o", "n">>>>,
       <<"format", <<"T", "e", "x", "t">>>>,
       <<"format", <<"y", "a", "m", "l">>>>,
       <<"projectid", <<"7">>>>,
       <<"projectid", <<"4", "2">>>>,
       <<"projectid", <<"x">>>> >>

\* entry n: source, key and text
Entry(n) ==
    LET kv == RawValues[((n - 1) % Len(RawValues)) + 1] IN
    [src |-> Sources[((n - 1) \div Len(RawValues)) + 1], key |-> kv[1], raw |-> kv[2]]

NumEntries == Len(Sources) * Len(RawValues)

RECURSIVE EntrySets(_, _)
\* the sets of at most k entry numbers, all of them from lo on
EntrySets(k, lo) ==
    IF k = 0 THEN {{}}
    ELSE {{}} \cup UNION {{{n} \cup T : T \in EntrySets(k - 1, n + 1)} : n \in lo..NumEntries}

\* a key has one value per source
OneValuePerKey(S) ==
    \A m, n \in S :
        (Entry(m).src = Entry(n).src /\ Entry(m).key = Entry(n).key) => m = n

\* what source src holds under an entry set: for each key its text, if any
Holding(S, src) ==
    [k \in {Keys[j] : j \in DOMAIN Keys} |->
        IF \E n \in S : Entry(n).src = src /\ Entry(n).key = k
        THEN Some(Entry(CHOOSE n \in S : Entry(n).src = src /\ Entry(n).key = k).raw)
        ELSE None]

\* the four git config levels and the environment under an entry set
SourcesOf(S) == [src \in {Sources[j] : j \in DOMAIN Sources} |-> Holding(S, src)]

Lower == <<"a", "e", "j", "l", "m", "n", "o", "r", "s", "t", "u", "x", "y">>

Upper == <<"A", "E", "J", "L", "M", "N", "O", "R", "S", "T", "U", "X", "Y">>

\* char::to_uppercase / to_lowercase on the letters the values use
upper(c) == IF \E j \in DOMAIN Lower : Lower[j] = c
            THEN Upper[CHOOSE j \in DOMAIN Lower : Lower[j] = c] ELSE c

lower(c) == IF \E j \in DOMAIN Upper : Upper[j] = c
            THEN Lower[CHOOSE j \in DOMAIN Upper : Upper[j] = c] ELSE c

\* str::to_uppercase / to_lowercase
to_uppercase_str(str) == [j \in DOMAIN str |-> upper(str[j])]

to_lowercase_str(str) == [j \in DOMAIN str |-> lower(str[j])]

RECURSIVE parse_u64(_)
\* str::parse::<u64>().ok(): the number a nonempty run of digits denotes
parse_u64(str) ==
    IF str = <<>> THEN None
    ELSE LET last == str[Len(str)]
             init == SubSeq(str, 1, Len(str) - 1)
         IN IF ~(\E d \in 0..9 : Digits[d + 1] = last) THEN None
            ELSE LET v == (CHOOSE d \in 0..9 : Digits[d + 1] = last) IN
                 IF init = <<>> THEN Some(v)
                 ELSE IF parse_u64(init) = None THEN None
                 ELSE Some(10 * parse_u64(init)[1] + v)

\* impl FromStr for OutputFormat, then .ok()
parse_OutputFormat(str) ==
    IF to_uppercase_str(str) = <<"J", "S", "O", "N">> THEN Some("JSON")
    ELSE IF to_uppercase_str(str) = <<"T", "E", "X", "T">> THEN Some("Text")
    ELSE None

\* value.to_uppercase() == "TRUE" || ... == "YES" || ... == "ON" || ... == "1"
tls_value(str) ==
    to_uppercase_str(str) \in
        {<<"T", "R", "U", "E">>, <<"Y", "E", "S">>, <<"O", "N">>, <<"1">>}

\* Config::new(); panicked is set once an unwrap() failed
EmptyConfig ==
    [token |-> None, host |-> None, tls |-> None, format |-> None,
     projectid |-> None, panicked |-> FALSE]

\* an update in which a value already set is kept
update_config_from_git_KeepFirst(config, gc) ==
    IF config.panicked THEN config
    ELSE [token |-> IF gc.token # None /\ config.token = None THEN gc.token
                    ELSE config.token,
          host |-> IF gc.host # None /\ config.host = None THEN gc.host ELSE config.host,
          tls |-> IF gc.tls # None /\ config.tls = None THEN Some(tls_value(gc.tls[1]))
                  ELSE config.tls,
          format |-> IF gc.format # None /\ config.format = None
                     THEN parse_OutputFormat(gc.format[1])
                     ELSE config.format,
          projectid |-> IF gc.projectid # None /\ parse_u64(gc.projectid[1]) # None
                           /\ config.projectid = None
                        THEN parse_u64(gc.projectid[1])
                        ELSE config.projectid,
          panicked |-> gc.projectid # None /\ parse_u64(gc.projectid[1]) = None]

\* update_config_from_git(config, git_config): every gitlab.* entry of one
\* level overwrites the field; format goes through parse().ok(), projectid
\* through parse::<u64>().unwrap()
update_config_from_git(config, gc) ==
    IF config.panicked THEN config
    ELSE [token |-> IF gc.token # None THEN gc.token ELSE config.token,
          host |-> IF gc.host # None THEN gc.host ELSE config.host,
          tls |-> IF gc.tls # None THEN Some(tls_value(gc.tls[1])) ELSE config.tls,
          format |-> IF gc.format # None THEN parse_OutputFormat(gc.format[1])
                     ELSE config.format,
          projectid |-> IF gc.projectid # None /\ parse_u64(gc.projectid[1]) # None
                        THEN parse_u64(gc.projectid[1])
                        ELSE config.projectid,
          panicked |-> gc.projectid # None /\ parse_u64(gc.projectid[1]) = None]

\* update_config_from_env(config, vars): every GITLABCLI_* variable
\* overwrites the field; format and projectid go through parse().ok()
update_config_from_env(config, ev) ==
    IF config.panicked THEN config
    ELSE [token |-> IF ev.token # None THEN ev.token ELSE config.token,
          host |-> IF ev.host # None THEN ev.host ELSE config.host,
          tls |-> IF ev.tls # None THEN Some(tls_value(ev.tls[1])) ELSE config.tls,
          format |-> IF ev.format # None THEN parse_OutputFormat(ev.format[1])
                     ELSE config.format,
          projectid |-> IF ev.projectid # None THEN parse_u64(ev.projectid[1])
                        ELSE config.projectid,
          panicked |-> FALSE]

\* everything but conf at rest
ConfOnly ==
    /\ source_branch_arg = None
    /\ local_branch_name = None
    /\ remote_branch_name = None
    /\ issue_arg = None
    /\ title = <<>>
    /\ exists = {}
    /\ openmr = {}
    /\ arm = 1
    /\ probes = <<>>
    /\ creates = <<>>
    /\ outcome = NoOutcome
    /\ failing = {}
    /\ target_arg = None
    /\ target_branch = <<>>
    /\ mr_calls = <<>>
    /\ result = "none"
    /\ prefix_check = NoCheck
    /\ other = NoOther
    /\ issue_state = "none"
    /\ repo = NoRepo

\* the config files and the environment before Config::defaults runs
InitConfig ==
    /\ \E S \in EntrySets(MaxEntries, 1) :
          /\ OneValuePerKey(S)
          /\ conf = [state |-> "input", sources |-> SourcesOf(S), config |-> EmptyConfig]
    /\ pc = "config"
    /\ ConfOnly

\* Config::defaults(): System, XDG and Global in that order, then the repo's
\* local config, then the environment
defaults ==
    /\ pc = "config"
    /\ conf.state = "input"
    /\ conf' =
          [conf EXCEPT
              !.state = "loaded",
              !.config =
                  update_config_from_env(
                      update_config_from_git(
                          update_config_from_git(
                              update_config_from_git(
                                  update_config_from_git(EmptyConfig, conf.sources.System),
                                  conf.sources.XDG),
                              conf.sources.Global),
                          conf.sources.Local),
                      conf.sources.Env)]
    /\ UNCHANGED <<ctx, exists, openmr, pc, arm, probes, creates, outcome, failing,
                   target_arg, target_branch, mr_calls, result, prefix_check,
                   other, issue_state, repo>>

NextConfig == defaults

SpecConfig == InitConfig /\ [][NextConfig]_vars

\* ------------------------------------------------------------------------
\* Configuration: `git lab init` and Config::save
\* ------------------------------------------------------------------------
\* impl Display for OutputFormat: the Debug name
format_to_string(f) == IF f = "JSON" THEN <<"J", "S", "O", "N">> ELSE <<"T", "e", "x", "t">>

\* what set_bool writes
bool_to_string(b) == IF b THEN <<"t", "r", "u", "e">> ELSE <<"f", "a", "l", "s", "e">>

\* a write in which an unset field removes the entry
write_config_ClearNone(gc, config, ev) ==
    [token |-> IF config.token # None /\ (ev.token = None \/ ev.token[1] # config.token[1])
               THEN config.token ELSE IF config.token = None THEN None ELSE gc.token,
     host |-> IF config.host # None /\ (ev.host = None \/ ev.host[1] # config.host[1])
              THEN config.host ELSE IF config.host = None THEN None ELSE gc.host,
     tls |-> IF config.tls # None THEN Some(bool_to_string(config.tls[1])) ELSE None,
     format |-> IF config.format # None
                   /\ (\/ ev.format = None
                       \/ to_lowercase_str(ev.format[1])
                          # to_lowercase_str(format_to_string(config.format[1])))
                THEN Some(to_lowercase_str(format_to_string(config.format[1])))
                ELSE gc.format,
     projectid |-> IF config.projectid # None
                      /\ (\/ ev.projectid = None
                          \/ ev.projectid[1] # to_string(config.projectid[1]))
                   THEN Some(to_string(config.projectid[1]))
                   ELSE IF config.projectid = None THEN None ELSE gc.projectid]

\* write_config(save_config, config): host, token, format and projectid are
\* set when the field is Some and the GITLABCLI_ variable is unset or holds
\* another value; tls is set whenever the field is Some
write_config(gc, config, ev) ==
    [token |-> IF config.token # None /\ (ev.token = None \/ ev.token[1] # config.token[1])
               THEN config.token ELSE gc.token,
     host |-> IF config.host # None /\ (ev.host = None \/ ev.host[1] # config.host[1])
              THEN config.host ELSE gc.host,
     tls |-> IF config.tls # None THEN Some(bool_to_string(config.tls[1])) ELSE gc.tls,
     format |-> IF config.format # None
                   /\ (\/ ev.format = None
                       \/ to_lowercase_str(ev.format[1])
                          # to_lowercase_str(format_to_string(config.format[1])))
                THEN Some(to_lowercase_str(format_to_string(config.format[1])))
                ELSE gc.format,
     projectid |-> IF config.projectid # None
                      /\ (\/ ev.projectid = None
                          \/ ev.projectid[1] # to_string(config.projectid[1]))
                   THEN Some(to_string(config.projectid[1]))
                   ELSE gc.projectid]

\* get_user_config_type(): XDG when an XDG config file is found, else Global
get_user_config_type(c) == IF c.xdg_exists THEN "XDG" ELSE "Global"

\* the machine before `git lab init`: which user-level config files exist,
\* whether the command runs inside a repository, what the files and the
\* environment hold, and whether --user is given
InitInitCmd ==
    /\ \E S \in EntrySets(MaxPrior, 1), x, g, r, u \in BOOLEAN :
          /\ OneValuePerKey(S)
          /\ \A n \in S :
                /\ (Entry(n).src = "XDG") => x
                /\ (Entry(n).src = "Global") => g
                /\ (Entry(n).src = "Local") => r
          /\ conf = [state |-> "input", sources |-> SourcesOf(S), config |-> EmptyConfig,
                     xdg_exists |-> x, global_exists |-> g, repo_path |-> r, user |-> u,
                     prompted |-> FALSE, level |-> "none"]
    /\ pc = "config"
    /\ ConfOnly

\* Config::save(level): the repo's local config for Repo; for User the file
\* user_config_type names, found again with find_xdg()/find_global() and
\* unwrapped; the result is the sources after the write, or a panic
save(c, config, level) ==
    LET file == IF level = "Repo" THEN "Local" ELSE get_user_config_type(c) IN
    IF level = "User" /\ file = "Global" /\ ~c.global_exists
    THEN [c EXCEPT !.state = "panicked", !.config = config, !.level = level,
                   !.prompted = TRUE]
    ELSE [c EXCEPT !.state = "saved", !.config = config, !.level = level,
                   !.prompted = TRUE,
                   !.sources[file] = write_config(c.sources[file], config, c.sources.Env)]

\* Init::run(config, args): host, token and tls are asked for and are None
\* when the prompt fails, the format is chosen from the two options or the
\* prompt panics; then the Config is saved at user level outside a
\* repository or with --user, and at repo level otherwise
InitRun ==
    /\ pc = "config"
    /\ conf.state = "loaded"
    /\ ~conf.config.panicked
    /\ \/ conf' = [conf EXCEPT !.state = "panicked"]
       \/ \E h \in Opt({<<"a">>}), t \in Opt({<<"b">>}), e \in Opt({FALSE}),
             f \in {"Text", "JSON"} :
             conf' = save(conf,
                          [conf.config EXCEPT !.host = h, !.token = t, !.tls = e,
                                              !.format = Some(f)],
                          IF ~conf.repo_path \/ conf.user THEN "User" ELSE "Repo")
    /\ UNCHANGED <<ctx, exists, openmr, pc, arm, probes, creates, outcome, failing,
                   target_arg, target_branch, mr_calls, result, prefix_check,
                   other, issue_state, repo>>

NextInitCmd == defaults \/ InitRun

SpecInitCmd == InitInitCmd /\ [][NextInitCmd]_vars

\* ------------------------------------------------------------------------
\* The project id of the command
\* ------------------------------------------------------------------------
\* a lookup in which the attached project wins over --project_id
get_proj_from_arg_or_conf_ConfigFirst(config, arg) ==
    CASE config.projectid = None /\ arg # None -> parse_u64(arg[1])
      [] config.projectid # None /\ arg = None -> config.projectid
      [] config.projectid # None /\ arg # None -> config.projectid
      [] OTHER -> None

\* get_proj_from_arg_or_conf(args, config): Some(id) for Ok(id), None for the
\* Err of the (None, None) arm; --project_id passed clap's check_u64
get_proj_from_arg_or_conf(config, arg) ==
    CASE config.projectid = None /\ arg # None -> parse_u64(arg[1])
      [] config.projectid # None /\ arg = None -> config.projectid
      [] config.projectid # None /\ arg # None -> parse_u64(arg[1])
      [] OTHER -> None

\* the state when mr create starts inside a repository: the project may be
\* attached in the config, --project_id may be given
InitProj ==
    /\ conf \in {[state |-> "loaded", config |-> [EmptyConfig EXCEPT !.projectid = c],
                   arg |-> a, project_id |-> None] :
                     c \in Opt({42}), a \in Opt({<<"7">>, <<"0", "9">>})}
    /\ source_branch_arg \in Opt(Targets)
    /\ \E lr \in get_current_branch :
          /\ lr \in Opt(Targets) \X Opt(Targets)
          /\ local_branch_name = lr[1]
          /\ remote_branch_name = lr[2]
    /\ issue_arg \in Opt({IssueList[1]})
    /\ issue_state \in (IF issue_arg = None THEN {"none"}
                         ELSE {"opened", "closed", "missing"})
    /\ title = TitleList[1]
    /\ target_arg \in Opt(Targets)
    /\ exists \in SUBSET (Candidates(source_branch_arg, local_branch_name,
                                     remote_branch_name, issue_arg, title)
                          \cup ({Str(target_arg)} \ {<<>>}))
    /\ openmr \in SUBSET Candidates(source_branch_arg, local_branch_name,
                                    remote_branch_name, issue_arg, title)
    /\ pc = "project"
    /\ arm = 1
    /\ probes = <<>>
    /\ creates = <<>>
    /\ outcome = NoOutcome
    /\ failing = {}
    /\ target_branch = <<>>
    /\ mr_calls = <<>>
    /\ result = "none"
    /\ prefix_check = NoCheck
    /\ other = NoOther
    /\ repo = NoRepo

\* `let project_id = utils::get_proj_from_arg_or_conf(&args, &config)?;`
\* the first thing the command does inside a repository
GetProject ==
    /\ pc = "project"
    /\ LET p == get_proj_from_arg_or_conf(conf.config, conf.arg) IN
       /\ conf' = [conf EXCEPT !.project_id = p]
       /\ IF p = None
          THEN result' = "NoProjectId" /\ pc' = "exit"
          ELSE pc' = "issue" /\ UNCHANGED result
    /\ UNCHANGED <<ctx, exists, openmr, arm, probes, creates, outcome, failing,
                   target_arg, target_branch, mr_calls, prefix_check,
                   other, issue_state, repo>>

NextProj == GetProject \/ NextIssue

\* the command from the project id to its return
SpecProj == InitProj /\ [][NextProj]_vars

TypeOK ==
    /\ pc \in {"project", "issue", "target", "resolve", "done", "exit", "prefix",
              "branch", "config"}
    /\ arm \in 1..19
    /\ outcome.kind \in {"none", "UseExisting", "Create", "Reject", "Panic"}
    /\ (pc = "done") => (outcome.kind # "none")
    /\ (pc \in {"project", "issue", "target", "resolve"}) => (outcome.kind = "none")

\* ------------------------------------------------------------------------
\* branch_prefixed_with_issue_id applied to arbitrary arguments
\* ------------------------------------------------------------------------
NameChars == {"0", "1", "2", "4", "-", "f"}

Names == UNION {[1..n -> NameChars] : n \in 0..MaxNameLen}

InitPrefix ==
    /\ prefix_check \in {[branch |-> b, id |-> i, state |-> "input", value |-> FALSE] :
                             b \in Names, i \in 0..MaxId}
    /\ pc = "prefix"
    /\ source_branch_arg = None
    /\ local_branch_name = None
    /\ remote_branch_name = None
    /\ issue_arg = None
    /\ title = <<>>
    /\ exists = {}
    /\ openmr = {}
    /\ arm = 1
    /\ probes = <<>>
    /\ creates = <<>>
    /\ outcome = NoOutcome
    /\ failing = {}
    /\ target_arg = None
    /\ target_branch = <<>>
    /\ mr_calls = <<>>
    /\ result = "none"
    /\ other = NoOther
    /\ issue_state = "none"
    /\ repo = NoRepo
    /\ conf = NoConf

\* one call branch_prefixed_with_issue_id(branch, id)
ApplyPrefixCheck ==
    /\ pc = "prefix"
    /\ prefix_check.state = "input"
    /\ prefix_check' =
          [prefix_check EXCEPT
              !.state = "done",
              !.value = branch_prefixed_with_issue_id(prefix_check.branch, prefix_check.id)]
    /\ UNCHANGED <<ctx, exists, openmr, pc, arm, probes, creates, outcome, failing,
                   target_arg, target_branch, mr_calls, result, side>>

NextPrefix == ApplyPrefixCheck

SpecPrefix == InitPrefix /\ [][NextPrefix]_vars

\* ------------------------------------------------------------------------
\* Properties
\* ------------------------------------------------------------------------
\* the naming convention as the specification states it: name starts with "<i>-"
is_issue_prefixed(name, i) ==
    LET p == to_string(i) \o <<"-">> IN
    Len(name) >= Len(p) /\ \A k \in 1..Len(p) : name[k] = p[k]

\* the step in which the match expression yields its value
Decides == pc = "resolve" /\ pc' = "done"

UseExisting(name) == [kind |-> "UseExisting", name |-> name, reason |-> ""]

Create(name) == [kind |-> "Create", name |-> name, reason |-> ""]

Reject(reason, name) == [kind |-> "Reject", name |-> name, reason |-> reason]

\* an outcome without the server's reply to the creation request
Decision(o) == [kind |-> o.kind, name |-> o.name, reason |-> o.reason]

\* the creation calls that go with a decision
CreatesOf(d) ==
    IF d.kind = "Create" THEN <<[from |-> defaultbranch, branch |-> d.name]>> ELSE <<>>

\* C1: every resolution ends in UseExisting, Create or a classified Reject,
\* never in a panic and never in the final unreachable arm.
C1_Totality ==
    pc = "done" => outcome.kind \in {"UseExisting", "Create", "Reject"}

\* C2 as stated: with an issue id i, every accepted or created name other than
\* the default branch starts with "<i>-", on every path.
C2_NamingInvariant ==
    (/\ pc = "done"
     /\ issue_arg # None
     /\ outcome.kind \in {"UseExisting", "Create"}
     /\ outcome.name # defaultbranch)
    => is_issue_prefixed(outcome.name, i_id)

\* C2 amended: with an issue id i, every accepted or created name other than
\* the default branch starts with "<i>-", unless the name is the tracking
\* branch taken over on the no-explicit-source path.
C2_NamingInvariantAmended ==
    (/\ pc = "done"
     /\ issue_arg # None
     /\ outcome.kind \in {"UseExisting", "Create"}
     /\ outcome.name # defaultbranch
     /\ ~(source_branch_arg = None /\ remote_branch_name = Some(outcome.name)))
    => is_issue_prefixed(outcome.name, i_id)

\* an issue id, a tracking branch, and a title-derived name created
C2_Witness ==
    /\ pc = "done"
    /\ issue_arg # None
    /\ source_branch_arg = None
    /\ remote_branch_name # None
    /\ outcome.kind = "Create"
    /\ outcome.name # remote
    /\ outcome.name # defaultbranch

\* C3: one resolution issues create_remote_branch at most once.
C3_AtMostOneCreate == Len(creates) <= 1

C3_Witness == pc = "done" /\ Len(creates) = 1 /\ outcome.kind = "Create"

\* C4: no explicit source and an unknown local branch end in
\* Reject(NoBranchInformation), with or without an issue id.
C4_NoBranchInformation ==
    (pc = "done" /\ source_branch_arg = None /\ local_branch_name = None)
    => (outcome.kind = "Reject" /\ outcome.reason = "NoBranchInformation")

\* C5: an explicit source s (no issue, or prefixed by the issue id) is reused
\* when it exists without an open request, rejected as in use when it exists
\* with one, and created from the default branch when it does not exist;
\* the local and tracking branches play no part.
C5_ExplicitSource ==
    [][(/\ Decides
        /\ PatSource
        /\ (issue_arg = None \/ is_issue_prefixed(s, i_id)))
       => LET d == IF s \in exists
                   THEN IF s \in openmr
                        THEN Reject("BranchAlreadyInUse", s)
                        ELSE UseExisting(s)
                   ELSE Create(s)
          IN /\ Decision(outcome') = d
             /\ creates' = CreatesOf(d)]_vars

C5_Witness ==
    /\ pc = "done"
    /\ PatSourceIssue
    /\ is_issue_prefixed(s, i_id)
    /\ local_branch_name # None
    /\ remote_branch_name # None
    /\ outcome.kind = "UseExisting"

\* C6: an explicit source without the issue prefix is rejected as a naming
\* violation before any probe and without any creation call.
C6_RejectBeforeProbe ==
    (PatSourceIssue /\ ~is_issue_prefixed(s, i_id))
    => /\ probes = <<>>
       /\ creates = <<>>
       /\ pc = "done" => Decision(outcome) = Reject("NamingConventionViolation", s)

C6_Witness ==
    /\ pc = "done"
    /\ PatSourceIssue
    /\ ~is_issue_prefixed(s, i_id)
    /\ s \in exists
    /\ outcome.kind = "Reject"

\* C7: on the default branch with no tracking branch and no issue, the
\* title slug is created if it does not exist remotely, and the outcome is
\* Reject(BranchAlreadyInUse(slug)) if it does.
C7_SlugFromTitle ==
    [][(Decides /\ PatLocalOnlyNoIssue /\ local = defaultbranch)
       => LET d == IF slug(title) \in exists
                   THEN Reject("BranchAlreadyInUse", slug(title))
                   ELSE Create(slug(title))
          IN Decision(outcome') = d /\ creates' = CreatesOf(d)]_vars

\* C8: a local branch other than the default branch, with no tracking branch
\* and no issue, is created whether or not it exists on the server.
C8_CreateLocal ==
    [][(Decides /\ PatLocalOnlyNoIssue /\ local # defaultbranch)
       => /\ Decision(outcome') = Create(local)
          /\ creates' = CreatesOf(Create(local))]_vars

\* C9: a tracking branch equal to the default branch that exists remotely,
\* with no issue, leads to Create(default, slug(title)) whether or not an
\* open request is sourced from it.
C9_TrackingDefault ==
    [][(/\ Decides
        /\ PatRemoteNoIssue
        /\ remote = defaultbranch
        /\ remote \in exists)
       => /\ Decision(outcome') = Create(slug(title))
          /\ creates' = CreatesOf(Create(slug(title)))]_vars

\* C10: a tracking branch other than the default branch, with no issue, is
\* rejected as in use when it exists with an open request, reused when it
\* exists without one, and created from the default branch otherwise.
C10_TrackingNoIssue ==
    [][(Decides /\ PatRemoteNoIssue /\ remote # defaultbranch)
       => LET d == IF remote \in exists
                   THEN IF remote \in openmr
                        THEN Reject("BranchAlreadyInUse", remote)
                        ELSE UseExisting(remote)
                   ELSE Create(remote)
          IN /\ Decision(outcome') = d
             /\ creates' = CreatesOf(d)]_vars

C10_Witness ==
    /\ pc = "done"
    /\ PatRemoteNoIssue
    /\ remote # defaultbranch
    /\ outcome.kind = "Reject"
    /\ outcome.reason = "BranchAlreadyInUse"

\* C11: with an issue id and a tracking branch r (no explicit source), r is
\* reused when it exists remotely and is prefixed, reused when it exists, is
\* not prefixed and is not the default branch, and created from the default
\* branch when it does not exist; open_mr_on_branch is never called.
C11_TrackingIssue ==
    [][/\ PatRemoteIssue => \A k \in DOMAIN probes' : probes'[k].t # "openmr"
       /\ (/\ Decides
           /\ PatRemoteIssue
           /\ \/ remote \notin exists
              \/ is_issue_prefixed(remote, i_id)
              \/ remote # defaultbranch)
          => LET d == IF remote \in exists THEN UseExisting(remote) ELSE Create(remote)
             IN /\ Decision(outcome') = d
                /\ creates' = CreatesOf(d)]_vars

\* a tracking branch without the prefix is reused although an open request
\* is sourced from it
C11_Witness ==
    /\ pc = "done"
    /\ PatRemoteIssue
    /\ ~is_issue_prefixed(remote, i_id)
    /\ remote \in openmr
    /\ outcome.kind = "UseExisting"
    /\ outcome.name = remote

\* C12 as stated: on the default branch with an issue id and no tracking
\* branch, "<i>-" + slug(title) is created whatever its remote state is.
C12_CreatePrefixedSlug ==
    [][(/\ Decides
        /\ PatLocalOnlyIssue
        /\ ~is_issue_prefixed(local, i_id)
        /\ local = defaultbranch)
       => /\ Decision(outcome') = Create(slug_and_prefix(i_id, title))
          /\ creates' = CreatesOf(Create(slug_and_prefix(i_id, title)))]_vars

\* C12 amended: "<i>-" + slug(title) is created when it does not exist
\* remotely; when it exists the command fails with an error naming it and
\* nothing is created.
C12_CreatePrefixedSlugAmended ==
    [][(/\ Decides
        /\ PatLocalOnlyIssue
        /\ ~is_issue_prefixed(local, i_id)
        /\ local = defaultbranch)
       => LET n == slug_and_prefix(i_id, title)
              d == IF n \in exists THEN Reject("BranchAlreadyExists", n) ELSE Create(n)
          IN /\ Decision(outcome') = d
             /\ creates' = CreatesOf(d)]_vars

C12_Witness ==
    /\ pc = "done"
    /\ PatLocalOnlyIssue
    /\ local = defaultbranch
    /\ outcome.kind = "Create"
    /\ outcome.name = slug_and_prefix(i_id, title)
    /\ outcome.ok

\* C13: with an issue id and no tracking branch, a prefixed local branch is
\* created without any probe, and a local branch that lacks the prefix and is
\* not the default branch is rejected with no probe and no creation call.
C13_LocalIssue ==
    [][(Decides /\ PatLocalOnlyIssue)
       => /\ is_issue_prefixed(local, i_id)
             => /\ Decision(outcome') = Create(local)
                /\ creates' = CreatesOf(Create(local))
                /\ probes' = <<>>
          /\ (~is_issue_prefixed(local, i_id) /\ local # defaultbranch)
             => /\ Decision(outcome') = Reject("NamingConventionViolation", local)
                /\ creates' = <<>>
                /\ probes' = <<>>]_vars

\* a prefixed local branch that already exists on the server
C13_Witness ==
    /\ pc = "done"
    /\ PatLocalOnlyIssue
    /\ is_issue_prefixed(local, i_id)
    /\ local \in exists
    /\ outcome.kind = "Create"

\* C14: a failed exists_remotely or has_open_request query ends the
\* resolution with that failure; no outcome is derived from a failed probe.
C14_ProbeFailureFatal ==
    (pc = "done" /\ \E k \in DOMAIN probes : probes[k].err)
    => (outcome.kind = "Reject" /\ outcome.reason = "ProbeFailure")

\* C15: the source_branch of every create-merge-request call differs from
\* the default branch, also when the default branch is passed with --source.
C15_DefaultNeverSource ==
    \A k \in DOMAIN mr_calls : mr_calls[k].source_branch # defaultbranch

\* C16: a given --target that does not exist remotely fails the command
\* before the source-branch match starts: one exists probe on the target, no
\* open-request probe, no creation and no merge request; without --target the
\* default branch is the target and the match starts with no probe made.
C16_TargetFirst ==
    /\ pc = "target" => (probes = <<>> /\ creates = <<>> /\ mr_calls = <<>>)
    /\ (target_arg # None /\ pc # "target" /\ Str(target_arg) \notin exists)
       => /\ pc = "exit"
          /\ result = "TargetBranchMissing"
          /\ arm = 1
          /\ outcome = NoOutcome
          /\ Len(probes) = 1
          /\ probes[1].t = "exists"
          /\ probes[1].n = Str(target_arg)
          /\ creates = <<>>
          /\ mr_calls = <<>>
    /\ (target_arg = None /\ pc # "target")
       => /\ target_branch = defaultbranch
          /\ (pc = "resolve" /\ arm = 1) => probes = <<>>
          /\ result # "TargetBranchMissing"

\* a missing target although the explicit source exists and could be used
C16_Witness ==
    /\ pc = "exit"
    /\ result = "TargetBranchMissing"
    /\ source_branch_arg # None
    /\ s \in exists
    /\ s \notin openmr

\* C17: a create-merge-request call is made only after the match yielded a
\* branch name, once, with that name as source_branch; when the match
\* rejects, panics or the branch creation fails, the command fails without
\* such a call.
C17_SubmitAfterResolution ==
    /\ Len(mr_calls) <= 1
    /\ mr_calls # <<>>
       => /\ pc = "exit"
          /\ outcome.kind \in {"UseExisting", "Create"}
          /\ outcome.ok
          /\ mr_calls[1].source_branch = outcome.name
          /\ mr_calls[1].target_branch = target_branch
          /\ outcome.kind = "Create"
             => creates = <<[from |-> defaultbranch, branch |-> outcome.name]>>
          /\ outcome.kind = "UseExisting" => creates = <<>>
    /\ (pc = "exit" /\ outcome.kind # "none" /\ ~outcome.ok)
       => /\ mr_calls = <<>>
          /\ result \in {"SourceBranchError", "panic"}
    /\ (pc = "exit" /\ outcome.ok) => (mr_calls # <<>> /\ result \in {"Ok", "MergeRequestFailed"})

\* a request sourced from a branch the command created
C17_Witness ==
    /\ pc = "exit"
    /\ outcome.kind = "Create"
    /\ outcome.ok
    /\ Len(mr_calls) = 1
    /\ result = "Ok"

\* C19: every create_remote_branch call has the default branch as its base
\* ref, whatever the target, local and tracking branches are.
C19_CreateFromDefault ==
    \A k \in DOMAIN creates : creates[k].from = defaultbranch

\* an explicit source created while the target, the local and the tracking
\* branch all differ from the default branch
C19_Witness ==
    /\ creates # <<>>
    /\ PatSource
    /\ target_branch # defaultbranch
    /\ local_branch_name # None
    /\ local # defaultbranch
    /\ remote_branch_name # None
    /\ remote # defaultbranch

\* the number a digit stands for
DigitValue(c) == CHOOSE d \in 0..9 : Digits[d + 1] = c

IsDigit(c) == \E d \in 0..9 : Digits[d + 1] = c

RECURSIVE DecimalValue(_)
\* the number a sequence of digits denotes
DecimalValue(ds) ==
    IF ds = <<>> THEN 0
    ELSE 10 * DecimalValue(SubSeq(ds, 1, Len(ds) - 1)) + DigitValue(ds[Len(ds)])

\* branch begins with the decimal numeral of id (digits only, no leading
\* zero) and the next character is '-'
StartsWithDecimalDash(branch, id) ==
    \E k \in 1..(Len(branch) - 1) :
        /\ \A j \in 1..k : IsDigit(branch[j])
        /\ branch[k + 1] = "-"
        /\ (k > 1 => branch[1] # "0")
        /\ DecimalValue(SubSeq(branch, 1, k)) = id

\* C20: branch_prefixed_with_issue_id(branch, id) is true iff branch starts
\* with the decimal text of id immediately followed by '-', with no
\* normalization: "42-f" is prefixed for 42 and not for 4; "421-" and "42f"
\* are not prefixed for 42.
C20_PrefixExact ==
    prefix_check.state = "done"
    => LET b == prefix_check.branch
           i == prefix_check.id
       IN /\ prefix_check.value = StartsWithDecimalDash(b, i)
          /\ (b = <<"4", "2", "-", "f">> /\ i = 42) => prefix_check.value
          /\ (b = <<"4", "2", "-", "f">> /\ i = 4) => ~prefix_check.value
          /\ (b = <<"4", "2", "1", "-">> /\ i = 42) => ~prefix_check.value
          /\ (b = <<"4", "2", "f">> /\ i = 42) => ~prefix_check.value
          /\ (b = <<"0", "4", "-", "f">> /\ i = 4) => ~prefix_check.value

C20_Witness ==
    /\ prefix_check.state = "done"
    /\ prefix_check.branch = <<"4", "2", "-", "f">>
    /\ prefix_check.id = 42
    /\ prefix_check.value


C29_NoCompensation ==
    [][/\ exists \subseteq exists'
       /\ (exists' # exists)
          => /\ Decides
             /\ outcome'.kind = "Create"
             /\ exists' = exists \cup {outcome'.name}
             /\ creates = <<>>
             /\ creates' = <<[from |-> defaultbranch, branch |-> outcome'.name]>>
       /\ (pc = "done" /\ pc' = "exit" /\ outcome.kind = "Create" /\ outcome.ok)
          => /\ result' \in {"Ok", "MergeRequestFailed"}
             /\ outcome.name \in exists'
             /\ exists' = exists
             /\ creates' = creates]_vars

\* the request failed after the match created the source branch
C29_Witness ==
    /\ pc = "exit"
    /\ result = "MergeRequestFailed"
    /\ outcome.kind = "Create"
    /\ outcome.ok
    /\ outcome.name \in exists
    /\ creates = <<[from |-> defaultbranch, branch |-> outcome.name]>>

\* C30: no explicit source, issue id i, and a tracking branch that exists,
\* equals the default branch and is not prefixed by "<i>-": the outcome is
\* Create(default, "<i>-" + slug(title)) when the local branch is the default
\* branch and the synthesized name does not exist, a rejection when the
\* synthesized name exists, and in every case, a local branch other than the
\* default included, a classified outcome and never the unreachable arm.
C30_TrackingDefaultIssue ==
    [][(/\ Decides
        /\ PatRemoteIssue
        /\ remote = defaultbranch
        /\ remote \in exists
        /\ ~is_issue_prefixed(remote, i_id))
       => /\ outcome'.kind \in {"UseExisting", "Create", "Reject"}
          /\ (local = defaultbranch)
             => IF slug_and_prefix(i_id, title) \in exists
                THEN outcome'.kind = "Reject"
                ELSE Decision(outcome') = Create(slug_and_prefix(i_id, title))]_vars


\* the probe calls in log that asked whether name n exists
ExistsProbes(log, n) == {k \in DOMAIN log : log[k].t = "exists" /\ log[k].n = n}

\* the answer the latest such call got; FALSE when n was never asked about
LatestExistsAnswer(log, n) ==
    IF ExistsProbes(log, n) = {} THEN FALSE
    ELSE log[CHOOSE k \in ExistsProbes(log, n) :
                 \A j \in ExistsProbes(log, n) : j <= k].ans

\* two calls of one probe about one name got different answers
AnswersDiffer(log) ==
    \E j, k \in DOMAIN log :
        log[j].t = log[k].t /\ log[j].n = log[k].n /\ log[j].ans # log[k].ans

\* C25: when repeated probe calls get different answers because the remote
\* state changed during the resolution, the resolution still ends in
\* UseExisting, Create or a classified Reject, never in the unreachable arm,
\* and no create_remote_branch is issued for a name whose latest
\* exists answer was true.
C25_ChangingAnswers ==
    [][(Decides /\ AnswersDiffer(probes'))
       => /\ outcome'.kind \in {"UseExisting", "Create", "Reject"}
          /\ (creates' # creates)
             => ~LatestExistsAnswer(probes', creates'[Len(creates')].branch)]_vars


\* both commands found no open request from one branch and both had their
\* create-merge-request call from it accepted
BothSubmitted ==
    /\ mr_calls # <<>>
    /\ result = "Ok"
    /\ other.pc = "submitted"
    /\ other.kind = "UseExisting"
    /\ other.name = mr_calls[1].source_branch
    /\ \E k \in DOMAIN probes :
          probes[k] = [t |-> "openmr", n |-> other.name, ans |-> FALSE, err |-> FALSE]

\* C26: two interleaved mr create commands do not disturb each other: a
\* match that was told a name does not exist and chose to create it is not
\* refused because the other command created that name in between, and the
\* two commands never both find no open request from a branch and both
\* submit a request from it.
C26_Interleaved ==
    [][/\ (/\ Decides
            /\ outcome'.kind = "Create"
            /\ ExistsProbes(probes', outcome'.name) # {}
            /\ ~LatestExistsAnswer(probes', outcome'.name))
           => outcome'.name \notin exists
       /\ ~BothSubmitted']_vars


\* C28: when --issue_id names a closed issue, or the lookup fails, the
\* command fails before the target is validated and before the source
\* branch is resolved: no probe, no create_remote_branch and no
\* create-merge-request call is ever issued.
C28_ClosedIssueGuard ==
    /\ (pc = "issue")
       => (probes = <<>> /\ creates = <<>> /\ mr_calls = <<>> /\ target_branch = <<>>)
    /\ (issue_arg # None /\ issue_state \in {"closed", "missing"} /\ pc # "issue")
       => /\ pc = "exit"
          /\ result = (IF issue_state = "closed" THEN "IssueClosed"
                        ELSE "IssueLookupFailed")
          /\ probes = <<>>
          /\ creates = <<>>
          /\ mr_calls = <<>>
          /\ target_branch = <<>>
          /\ outcome = NoOutcome

\* a closed issue ended a command whose --target is missing on the server
\* and whose explicit source would have been created
C28_Witness ==
    /\ pc = "exit"
    /\ result = "IssueClosed"
    /\ target_arg # None
    /\ Str(target_arg) \notin exists
    /\ source_branch_arg # None
    /\ s \notin exists


\* name begins with the seven characters of "origin/"
BeginsWithOrigin(name) ==
    /\ Len(name) >= 7
    /\ name[1] = "o" /\ name[2] = "r" /\ name[3] = "i" /\ name[4] = "g"
    /\ name[5] = "i" /\ name[6] = "n" /\ name[7] = "/"

\* C27: get_current_branch never returns a tracking branch without a local
\* branch, and the tracking name it returns is the upstream name with
\* exactly its first "origin/" prefix removed when it begins with "origin/",
\* and the upstream name unchanged otherwise.
C27_CurrentBranch ==
    (repo.state = "done")
    => /\ (repo.remote # None) => (repo.local # None)
       /\ (repo.local # None) => (repo.local = Some(repo.name))
       /\ (repo.remote # None)
          => /\ repo.upstream # None
             /\ LET u == repo.upstream[1] IN
                repo.remote[1] = IF BeginsWithOrigin(u) THEN SubSeq(u, 8, Len(u)) ELSE u
       /\ (repo.head = "branch" /\ repo.upstream # None) => (repo.remote # None)

\* "origin/origin/f" came back as "origin/f"
C27_Witness ==
    /\ repo.state = "done"
    /\ repo.upstream = Some(Origin \o Origin \o <<"f">>)
    /\ repo.remote = Some(Origin \o <<"f">>)


\* the typed value a text gives a key
ValueOf(k, raw) ==
    CASE k = "tls" -> Some(tls_value(raw))
      [] k = "format" -> parse_OutputFormat(raw)
      [] k = "projectid" -> parse_u64(raw)
      [] OTHER -> Some(raw)

\* the sources that set key k, as positions in Sources
Setting(k) == {j \in DOMAIN Sources : conf.sources[Sources[j]][k] # None}

\* the value the highest-priority source that sets k gives it
Expected(k) ==
    IF Setting(k) = {} THEN None
    ELSE LET top == CHOOSE j \in Setting(k) : \A h \in Setting(k) : h <= j IN
         ValueOf(k, conf.sources[Sources[top]][k][1])

\* C21: Config::defaults applies system, XDG, global, repo-local, then the
\* environment: each of token, host, tls, format and projectid ends with the
\* value of the highest-priority source that sets it, and a key only a
\* lower-priority source sets keeps that value.
C21_Precedence ==
    (conf.state = "loaded")
    => /\ ~conf.config.panicked
       /\ \A j \in DOMAIN Keys : conf.config[Keys[j]] = Expected(Keys[j])


\* the text a Config field is stored as
TextOf(k, v) ==
    CASE k = "tls" -> bool_to_string(v)
      [] k = "format" -> to_lowercase_str(format_to_string(v))
      [] k = "projectid" -> to_string(v)
      [] OTHER -> v

\* the level the claim has init write to
TargetLevel ==
    IF ~conf.repo_path \/ conf.user
    THEN (IF conf.xdg_exists THEN "XDG" ELSE "Global")
    ELSE "Local"

\* C22: init writes the gitlab.* settings to the user-level config (XDG when
\* an XDG config file exists, else global) outside a repository or with
\* --user and to the repo-local config otherwise; the entries of every other
\* level stay as they were, and a field that is None is not written.
C22_InitSave ==
    [][(conf.state = "loaded" /\ conf'.state # "loaded" /\ conf'.prompted)
       => /\ conf'.state = "saved"
          /\ \A j \in DOMAIN Sources :
                Sources[j] # TargetLevel
                => conf'.sources[Sources[j]] = conf.sources[Sources[j]]
          /\ \A j \in DOMAIN Keys :
                LET k == Keys[j]
                    v == conf'.config[k]
                    old == conf.sources[TargetLevel][k]
                    new == conf'.sources[TargetLevel][k]
                IN /\ (v = None) => (new = old)
                   /\ (v # None) => (new = old \/ new = Some(TextOf(k, v[1])))
                   /\ (v # None /\ conf.sources.Env[k] = None)
                      => (new = Some(TextOf(k, v[1])))]_vars


\* C23: --project_id overrides the attached project, the attached project is
\* used without it, and with neither the command fails at once, with no
\* request to the server.
C23_ProjectId ==
    /\ (pc = "project")
       => (probes = <<>> /\ creates = <<>> /\ mr_calls = <<>> /\ result = "none")
    /\ (pc # "project")
       => /\ (conf.arg # None)
             => (conf.project_id = Some(DecimalValue(conf.arg[1])))
          /\ (conf.arg = None /\ conf.config.projectid # None)
             => (conf.project_id = conf.config.projectid)
          /\ (conf.arg = None /\ conf.config.projectid = None)
             => /\ conf.project_id = None
                /\ pc = "exit"
                /\ result = "NoProjectId"
                /\ probes = <<>>
                /\ creates = <<>>
                /\ mr_calls = <<>>
                /\ outcome = NoOutcome
          /\ (conf.project_id # None) => (result # "NoProjectId")

\* project 42 attached, --project_id 7 given, and the request opened in 7
C23_Witness ==
    /\ pc = "exit"
    /\ result = "Ok"
    /\ conf.config.projectid = Some(42)
    /\ conf.arg = Some(<<"7">>)
    /\ conf.project_id = Some(7)

====
